---- MODULE Spec2Model ----
(***************************************************************************)
(* Model of backend/main.py: a FastAPI service over one PostGIS table      *)
(* `locations`.  The table is a set of rows; init_db runs at every process *)
(* start, add_location / get_nearby_users / get_all_points are the request *)
(* handlers.  get_all_points issues several statements (one SELECT of the  *)
(* table, then one ST_Distance per interior row), so it is modelled step   *)
(* by step and add_location may commit between its steps.                  *)
(*                                                                         *)
(* Numbers.  Coordinates are points of a small integer grid whose origin   *)
(* is the init point of init_db.  Distances are whole multiples of the     *)
(* distance unit, which is 1e-6 m, so that the 1e-6 of line 155 is         *)
(* Epsilon = 1; one grid step is DistScale units.  Accuracies are exact    *)
(* rationals <<numerator, denominator>> in lowest terms: the model does    *)
(* not round as float64 does.                                              *)
(***************************************************************************)
EXTENDS Integers, Sequences, FiniteSets

VARIABLES
    locations,   \* the table: a set of rows [id, username, point, timestamp]
    id_seq,      \* next value of the serial primary key (never reset by DELETE)
    clock,       \* datetime.utcnow, a logical clock advanced by every insert
    pc,          \* get_all_points: "idle", or "loop" inside lines 130-143
    rows,        \* get_all_points: its local `rows` (line 109)
    distances,   \* get_all_points: its local `distances` (line 129)
    response,    \* the response most recently returned by this process
    snapshot,    \* history: the table as it was when `rows` was read
    last_call    \* history: the newest get_all_points call since the last commit:
                 \* the table it read, its body, and `made`: 0 for no call, 2
                 \* when the call before it read the same table, else 1

vars == <<locations, id_seq, clock, pc, rows, distances, response, snapshot, last_call>>

\* ---------------------------------------------------------------- bounds
\* Primary keys handed out over the whole run (inserts of init_db and add_location).
MaxId == 4
\* Distance units per grid step.
DistScale == 4

\* ------------------------------------------------------------- constants
init_lat == 0
init_lng == 0
Epsilon == 1

None == "None"
NoResponse == [op |-> "none", body |-> <<>>]
NoCall == [seen |-> {}, body |-> <<>>, made |-> 0]

\* Request bodies of POST /location (LocationCreate) the model draws from.
LocationCreate == {
    [username |-> "user", latitude |-> 0, longitude |-> 0],
    [username |-> "user", latitude |-> 1, longitude |-> 1],
    [username |-> "user", latitude |-> 2, longitude |-> 2],
    [username |-> "user", latitude |-> 0, longitude |-> 2] }

\* Query parameters of GET /nearby the model draws from.
NearbyQuery == {
    [latitude |-> 0, longitude |-> 0, radius |-> 0],
    [latitude |-> 1, longitude |-> 1, radius |-> 6],
    [latitude |-> 0, longitude |-> 2, radius |-> 9] }

\* ------------------------------------------------------------ arithmetic
Abs(x) == IF x < 0 THEN -x ELSE x

RECURSIVE GCD(_, _)
GCD(a, b) == IF b = 0 THEN a ELSE GCD(b, a % b)

\* The rational n/d (n >= 0, d > 0) in lowest terms.
Rat(n, d) == LET g == GCD(n, d) IN <<n \div g, d \div g>>

RatAdd(p, q) ==
    LET g == GCD(p[2], q[2])
        l == (p[2] \div g) * q[2]
    IN  Rat(p[1] * (l \div p[2]) + q[1] * (l \div q[2]), l)

RatMul(p, q) == Rat(p[1] * q[1], p[2] * q[2])

RatDiv(p, q) == Rat(p[1] * q[2], p[2] * q[1])

RatLess(p, q) == p[1] * q[2] < q[1] * p[2]

\* Largest r with r * r <= n.
ISqrt(n) == CHOOSE r \in 0..n : r * r <= n /\ n < (r + 1) * (r + 1)

RECURSIVE sum(_)
sum(s) == IF s = <<>> THEN 0 ELSE s[1] + sum(Tail(s))

RECURSIVE RatSum(_)
RatSum(s) == IF s = <<>> THEN <<0, 1>> ELSE RatAdd(s[1], RatSum(Tail(s)))

Range(s) == {s[i] : i \in DOMAIN s}

\* --------------------------------------------------------------- PostGIS
\* f'POINT({lng} {lat})': x is the longitude, y the latitude.
point_wkt(lng, lat) == <<lng, lat>>

ST_X(p) == p[1]
ST_Y(p) == p[2]

\* f'LINESTRING({first.lng} {first.lat}, {last.lng} {last.lat})'
line_wkt(first, last) == <<point_wkt(first.lng, first.lat), point_wkt(last.lng, last.lat)>>

SqDist(p, q) == (p[1] - q[1]) * (p[1] - q[1]) + (p[2] - q[2]) * (p[2] - q[2])

\* ST_Distance(point, point), in distance units.
PointDistance(p, q) == ISqrt(DistScale * DistScale * SqDist(p, q))

\* ST_Distance(point, line): the distance from p to the segment line[1]-line[2]
\* (not to the infinite line), in distance units.
ST_Distance(p, line) ==
    LET a == line[1]
        b == line[2]
        len2 == SqDist(a, b)
        t == (p[1] - a[1]) * (b[1] - a[1]) + (p[2] - a[2]) * (b[2] - a[2])
        cross == (p[1] - a[1]) * (b[2] - a[2]) - (p[2] - a[2]) * (b[1] - a[1])
    IN  IF len2 = 0 \/ t <= 0 THEN PointDistance(p, a)
        ELSE IF t >= len2 THEN PointDistance(p, b)
        ELSE ISqrt((DistScale * DistScale * cross * cross) \div len2)

\* ST_DWithin(Location.point, point_wkt, radius)
ST_DWithin(p, q, radius) == PointDistance(p, q) <= radius

\* ------------------------------------------------------------- the table
Location(id, username, point, timestamp) ==
    [id |-> id, username |-> username, point |-> point, timestamp |-> timestamp]

\* SELECT id, username, timestamp, ST_X(point) AS lng, ST_Y(point) AS lat
Row(loc) ==
    [id |-> loc.id, username |-> loc.username, timestamp |-> loc.timestamp,
     lng |-> ST_X(loc.point), lat |-> ST_Y(loc.point)]

\* The sequences that list every element of the set S once.
Orderings(S) ==
    {s \in [1..Cardinality(S) -> S] : \A i, j \in DOMAIN s : i # j => s[i] # s[j]}

\* ORDER BY id: the rows of R by ascending id.
RECURSIVE OrderById(_)
OrderById(R) ==
    IF R = {} THEN <<>>
    ELSE LET m == CHOOSE r \in R : \A q \in R : r.id <= q.id
         IN  <<m>> \o OrderById(R \ {m})

\* The same statement without its ORDER BY: the rows in any order.
SelectUnordered(T) == Orderings({Row(loc) : loc \in T})

\* The results the statement of lines 102-108 may return for table T:
\* every row once, ORDER BY id.
SelectOrderById(T) == {OrderById({Row(loc) : loc \in T})}

\* ------------------------------------------------------------- init_db
\* Lines 47-56: delete every row, then insert the init point.  T is the table
\* and id the next primary key; the result is the table after both commits.
init_db_table(T, id) ==
    {Location(id, "init", point_wkt(init_lng, init_lat), clock)}

\* The state once the module has been imported for the first time: the table
\* created empty (line 27) and init_db() run on it (line 58).
Init ==
    /\ locations = {Location(1, "init", point_wkt(init_lng, init_lat), 1)}
    /\ id_seq = 2
    /\ clock = 2
    /\ pc = "idle"
    /\ rows = <<>>
    /\ distances = <<>>
    /\ response = NoResponse
    /\ snapshot = {}
    /\ last_call = NoCall

\* The process is started again: the module is imported, init_db() runs
\* (line 58) and the handlers of the old process are gone.
init_db ==
    /\ id_seq <= MaxId
    /\ locations' = init_db_table(locations, id_seq)
    /\ id_seq' = id_seq + 1
    /\ clock' = clock + 1
    /\ pc' = "idle"
    /\ rows' = <<>>
    /\ distances' = <<>>
    /\ response' = NoResponse
    /\ snapshot' = {}
    /\ last_call' = NoCall

\* -------------------------------------------------------- POST /location
\* The insert as an upsert keyed by username: the user's older rows go.
add_location_table_upsert(T, data, id) ==
    {loc \in T : loc.username # data.username}
        \cup {Location(id, data.username, point_wkt(data.longitude, data.latitude), clock)}

\* Lines 69-72: the table after the insert of `data` is committed.
add_location_table(T, data, id) ==
    T \cup {Location(id, data.username, point_wkt(data.longitude, data.latitude), clock)}

add_location(data) ==
    /\ id_seq <= MaxId
    /\ locations' = add_location_table(locations, data, id_seq)
    /\ id_seq' = id_seq + 1
    /\ clock' = clock + 1
    /\ response' = [op |-> "location",
                    body |-> [id |-> id_seq, username |-> data.username,
                              latitude |-> data.latitude, longitude |-> data.longitude,
                              timestamp |-> clock]]
    /\ last_call' = NoCall
    /\ UNCHANGED <<pc, rows, distances, snapshot>>

\* ------------------------------------------------------------ GET /nearby
\* Lines 85-89: the rows the filter keeps.
nearby_results(T, q) ==
    {loc \in T : loc.point # None
                 /\ ST_DWithin(loc.point, point_wkt(q.longitude, q.latitude), q.radius)}

\* The handler as it would be if the filter were applied by deleting the
\* rows it rejects.
get_nearby_users_deleting(q) ==
    /\ locations' = nearby_results(locations, q)
    /\ response' = [op |-> "nearby",
                    body |-> {[id |-> loc.id, username |-> loc.username,
                               timestamp |-> loc.timestamp] : loc \in nearby_results(locations, q)}]
    /\ UNCHANGED <<id_seq, clock, pc, rows, distances, snapshot, last_call>>

\* Lines 83-97.  The query has no ORDER BY: the body is kept as the set of
\* its elements.
get_nearby_users(q) ==
    /\ response' = [op |-> "nearby",
                    body |-> {[id |-> loc.id, username |-> loc.username,
                               timestamp |-> loc.timestamp] : loc \in nearby_results(locations, q)}]
    /\ UNCHANGED <<locations, id_seq, clock, pc, rows, distances, snapshot, last_call>>

\* ------------------------------------------------------------ GET /points
\* The history record of a call that read table T and returned `body`.
Called(T, body) ==
    [seen |-> T, body |-> body,
     made |-> IF last_call.made > 0 /\ last_call.seen = T THEN 2 ELSE 1]

\* Lines 111-124: the body returned when fewer than two rows were read.
few_rows_result(rs) ==
    [i \in 1..Len(rs) |->
        [id |-> rs[i].id, username |-> rs[i].username,
         latitude |-> rs[i].lat, longitude |-> rs[i].lng,
         timestamp |-> rs[i].timestamp,
         distance |-> None, accuracy |-> <<100, 1>>,
         is_first |-> TRUE, is_last |-> TRUE]]

\* Lines 102-129: the SELECT, the early return, the locals of the loop.
get_all_points_query ==
    /\ pc = "idle"
    /\ \E rs \in SelectOrderById(locations) :
        /\ snapshot' = locations
        /\ IF Len(rs) < 2
           THEN /\ response' = [op |-> "points", body |-> few_rows_result(rs)]
                /\ last_call' = Called(locations, few_rows_result(rs))
                /\ pc' = "idle"
                /\ rows' = <<>>
           ELSE /\ pc' = "loop"
                /\ rows' = rs
                /\ UNCHANGED <<response, last_call>>
    /\ distances' = <<>>
    /\ UNCHANGED <<locations, id_seq, clock>>

\* Lines 125-127 and 131-142: `dist` of the row at position i of rs (from 1).
row_distance(rs, i) ==
    LET first == rs[1]
        last == rs[Len(rs)]
    IN  IF i # 1 /\ i # Len(rs)
        THEN ST_Distance(point_wkt(rs[i].lng, rs[i].lat), line_wkt(first, last))
        ELSE 0

\* One turn of the loop that reads the table again for `first` and `last`
\* instead of using the rows it already holds.
get_all_points_distance_requery ==
    /\ pc = "loop"
    /\ Len(distances) < Len(rows)
    /\ distances' = Append(distances,
            row_distance(OrderById({Row(loc) : loc \in locations}), Len(distances) + 1))
    /\ UNCHANGED <<locations, id_seq, clock, pc, rows, response, snapshot, last_call>>

\* Lines 130-143: one turn of the loop.
get_all_points_distance ==
    /\ pc = "loop"
    /\ Len(distances) < Len(rows)
    /\ distances' = Append(distances, row_distance(rows, Len(distances) + 1))
    /\ UNCHANGED <<locations, id_seq, clock, pc, rows, response, snapshot, last_call>>

\* Line 145 with `or` for `and`: every position passes.
non_end_indices_or(n) == SelectSeq([i \in 1..n |-> i], LAMBDA i : i # 1 \/ i # n)

\* Line 145, positions counted from 1: the list of the positions that are
\* neither the first nor the last.
non_end_indices(n) == SelectSeq([i \in 1..n |-> i], LAMBDA i : i # 1 /\ i # n)

\* list.index
Index(s, x) == CHOOSE k \in 1..Len(s) : s[k] = x

\* Line 155 without the inversion: the weight grows with the distance.
inverted_direct(d) == <<d + Epsilon, 1>>

\* Line 155.
inverted(d) == RatDiv(<<1, 1>>, <<d + Epsilon, 1>>)

\* Lines 145-158 with line 157 leaving out the `* 100.0`.
accuracies_no_percent(ds) ==
    LET n == Len(ds)
        ne == non_end_indices(n)
        non_end_distances == [k \in 1..Len(ne) |-> ds[ne[k]]]
        total_distance == sum(non_end_distances)
        inv == [k \in 1..Len(ne) |-> inverted(non_end_distances[k])]
        total_inverted == RatSum(inv)
        accs == [k \in 1..Len(ne) |-> RatDiv(inv[k], total_inverted)]
    IN  IF Len(ne) = 0 THEN [i \in 1..n |-> None]
        ELSE IF total_distance = 0
        THEN [i \in 1..n |-> IF i \in Range(ne) THEN Rat(100, Len(ne)) ELSE None]
        ELSE [i \in 1..n |-> IF i \in Range(ne) THEN accs[Index(ne, i)] ELSE None]

\* Lines 145-158 with line 152 dividing by len(rows).
accuracies_over_rows(ds) ==
    LET n == Len(ds)
        ne == non_end_indices(n)
        non_end_distances == [k \in 1..Len(ne) |-> ds[ne[k]]]
        total_distance == sum(non_end_distances)
        inv == [k \in 1..Len(ne) |-> inverted(non_end_distances[k])]
        total_inverted == RatSum(inv)
        accs == [k \in 1..Len(ne) |-> RatMul(RatDiv(inv[k], total_inverted), <<100, 1>>)]
    IN  IF Len(ne) = 0 THEN [i \in 1..n |-> None]
        ELSE IF total_distance = 0
        THEN [i \in 1..n |-> IF i \in Range(ne) THEN Rat(100, n) ELSE None]
        ELSE [i \in 1..n |-> IF i \in Range(ne) THEN accs[Index(ne, i)] ELSE None]

\* Lines 145-158: the list `accuracies` for the list `ds` of distances.
accuracies(ds) ==
    LET n == Len(ds)
        ne == non_end_indices(n)
        non_end_distances == [k \in 1..Len(ne) |-> ds[ne[k]]]
        total_distance == sum(non_end_distances)
        inv == [k \in 1..Len(ne) |-> inverted(non_end_distances[k])]
        total_inverted == RatSum(inv)
        accs == [k \in 1..Len(ne) |-> RatMul(RatDiv(inv[k], total_inverted), <<100, 1>>)]
    IN  IF Len(ne) = 0 THEN [i \in 1..n |-> None]
        ELSE IF total_distance = 0
        THEN [i \in 1..n |-> IF i \in Range(ne) THEN Rat(100, Len(ne)) ELSE None]
        ELSE [i \in 1..n |-> IF i \in Range(ne) THEN accs[Index(ne, i)] ELSE None]

\* Lines 159-172 with line 171 comparing with len(rows).
scored_off_by_one(rs, ds) ==
    LET acc == accuracies(ds)
    IN  [i \in 1..Len(rs) |->
            [id |-> rs[i].id, username |-> rs[i].username,
             latitude |-> rs[i].lat, longitude |-> rs[i].lng,
             timestamp |-> rs[i].timestamp,
             distance |-> ds[i], accuracy |-> acc[i],
             is_first |-> (i = 1), is_last |-> (i = Len(rs) + 1)]]

\* Lines 128 and 159-172: the list `result`.
scored(rs, ds) ==
    LET acc == accuracies(ds)
    IN  [i \in 1..Len(rs) |->
            [id |-> rs[i].id, username |-> rs[i].username,
             latitude |-> rs[i].lat, longitude |-> rs[i].lng,
             timestamp |-> rs[i].timestamp,
             distance |-> ds[i], accuracy |-> acc[i],
             is_first |-> (i = 1), is_last |-> (i = Len(rs))]]

\* Lines 144-173: the accuracies, the records, the return.
get_all_points_respond ==
    /\ pc = "loop"
    /\ Len(distances) = Len(rows)
    /\ response' = [op |-> "points", body |-> scored(rows, distances)]
    /\ last_call' = Called(snapshot, scored(rows, distances))
    /\ pc' = "idle"
    /\ rows' = <<>>
    /\ distances' = <<>>
    /\ UNCHANGED <<locations, id_seq, clock, snapshot>>

Next ==
    \/ init_db
    \/ \E data \in LocationCreate : add_location(data)
    \/ \E q \in NearbyQuery : get_nearby_users(q)
    \/ get_all_points_query
    \/ get_all_points_distance
    \/ get_all_points_respond

Spec == Init /\ [][Next]_vars

\* ---------------------------------------------------------------- claims
\* The body of the last response when GET /points returned it.
IsPoints == response.op = "points"
Body == response.body

Interior(b) == {i \in DOMAIN b : ~b[i].is_first /\ ~b[i].is_last}

\* The sum of the accuracies of b that are not null.
RECURSIVE AccuracySum(_)
AccuracySum(b) ==
    IF b = <<>> THEN <<0, 1>>
    ELSE IF Head(b).accuracy = None THEN AccuracySum(Tail(b))
    ELSE RatAdd(Head(b).accuracy, AccuracySum(Tail(b)))

\* |r - 100| <= 1e-6 for the rational r.
Is100(r) == Abs(r[1] - 100 * r[2]) <= r[2] \div 1000000

\* C1 as stated: whenever get_all_points answers for two or more stored points,
\* the accuracies that are not null add up to 100 within 1e-6.
C1_SumIs100_FromTwoRows ==
    (IsPoints /\ Len(Body) >= 2) => Is100(AccuracySum(Body))

\* C1 as amended: whenever get_all_points answers for three or more stored
\* points (so that an interior point exists), the accuracies that are not null
\* add up to 100 within 1e-6.
C1_SumIs100_WithInterior ==
    (IsPoints /\ Len(Body) >= 3) => Is100(AccuracySum(Body))

C1_Witness ==
    /\ IsPoints
    /\ Len(Body) >= 4
    /\ \E i, j \in Interior(Body) : 0 < Body[i].distance /\ Body[i].distance < Body[j].distance

\* C2: a get_all_points call that read no row answers with the empty list, and
\* one that read a single row answers with one record whose distance and
\* accuracy are null and whose is_first and is_last are both true.
C2_FewRows ==
    (last_call.made > 0 /\ Cardinality(last_call.seen) < 2) =>
        /\ Len(last_call.body) = Cardinality(last_call.seen)
        /\ \A i \in DOMAIN last_call.body :
            /\ last_call.body[i].distance = None
            /\ last_call.body[i].accuracy = None
            /\ last_call.body[i].is_first
            /\ last_call.body[i].is_last

\* C3: in an answer of get_all_points for two or more stored points exactly one
\* record is the first, it has the lowest id, exactly one is the last, it has
\* the highest id, they are two records, and the distance of both is 0.
C3_OneFirstOneLast ==
    (IsPoints /\ Len(Body) >= 2) =>
        \E f, l \in DOMAIN Body :
            /\ f # l
            /\ \A i \in DOMAIN Body : Body[i].is_first <=> i = f
            /\ \A i \in DOMAIN Body : Body[i].is_last <=> i = l
            /\ \A i \in DOMAIN Body : Body[f].id <= Body[i].id /\ Body[i].id <= Body[l].id
            /\ Body[f].distance = 0
            /\ Body[l].distance = 0

C3_Witness ==
    /\ IsPoints
    /\ Len(Body) >= 3
    /\ Body[1].latitude # Body[Len(Body)].latitude
    /\ \E i \in Interior(Body) : Body[i].distance > 0

\* C4: in an answer of get_all_points for two or more stored points the accuracy
\* is null for the first and the last record and for no other.
C4_NullExactlyAtEnds ==
    (IsPoints /\ Len(Body) >= 2) =>
        \A i \in DOMAIN Body : (Body[i].accuracy = None) <=> (i = 1 \/ i = Len(Body))

C4_Witness ==
    /\ IsPoints
    /\ Len(Body) >= 3
    /\ \E i \in DOMAIN Body : Body[i].accuracy # None
    /\ Body[1].accuracy = None
    /\ Body[Len(Body)].accuracy = None

\* C5: of two interior records of one answer, the one with the strictly smaller
\* distance has the strictly greater accuracy.
C5_CloserScoresHigher ==
    IsPoints =>
        \A i, j \in Interior(Body) :
            Body[i].distance < Body[j].distance => RatLess(Body[j].accuracy, Body[i].accuracy)

C5_Witness ==
    /\ IsPoints
    /\ \E i, j \in Interior(Body) :
        /\ Body[i].distance < Body[j].distance
        /\ RatLess(Body[j].accuracy, Body[i].accuracy)

\* C6: when an answer has interior records and the distance of each is 0, the
\* accuracy of each is 100 / (their number) and that of the end records is null.
C6_UniformOnThePath ==
    (IsPoints /\ Interior(Body) # {} /\ \A i \in Interior(Body) : Body[i].distance = 0) =>
        \A i \in DOMAIN Body :
            Body[i].accuracy = IF i \in Interior(Body)
                               THEN Rat(100, Cardinality(Interior(Body)))
                               ELSE None

C6_Witness ==
    /\ IsPoints
    /\ Cardinality(Interior(Body)) >= 2
    /\ \A i \in Interior(Body) : Body[i].distance = 0
    /\ \E i \in Interior(Body) : Body[i].latitude # Body[1].latitude

\* C7 as stated: no step of the program, init_db included, removes or alters a
\* stored point.
C7_AppendOnly == [][locations \subseteq locations']_vars

\* C7 as amended: no step of add_location, get_nearby_users or get_all_points
\* removes or alters a stored point; init_db deletes the stored points.
C7_AppendOnlyButInitDb == [][init_db \/ locations \subseteq locations']_vars

C7_Witness ==
    /\ Cardinality(locations) >= 3
    /\ \E loc \in locations : loc.username = "init"
    /\ response.op = "location"

\* C8: a step of get_nearby_users or of get_all_points leaves the table as it
\* was.
C8_ReadsOnly ==
    [][((\E q \in NearbyQuery : get_nearby_users(q))
            \/ get_all_points_query \/ get_all_points_distance \/ get_all_points_respond)
        => locations' = locations]_vars

C8_Witness ==
    /\ response.op = "nearby"
    /\ response.body # {}
    /\ last_call.made > 0
    /\ Cardinality(locations) >= 3

\* C9: a get_all_points call that read the table the call before it read, with
\* no commit between the two, returns the body that call returned.
C9_SameTableSameBody ==
    [][(last_call.made > 0 /\ last_call'.made > 0 /\ last_call'.seen = last_call.seen)
        => last_call'.body = last_call.body]_vars

C9_Witness ==
    /\ last_call.made = 2
    /\ Len(last_call.body) >= 4
    /\ response.op = "points"
    /\ response.body = last_call.body

\* The answer of get_all_points for the table T, all of it computed from T.
ScoreOf(T) ==
    LET rs == OrderById({Row(loc) : loc \in T})
        n == Len(rs)
        ds == [i \in 1..n |->
                 IF i = 1 \/ i = n THEN 0
                 ELSE ST_Distance(<<rs[i].lng, rs[i].lat>>,
                                  <<<<rs[1].lng, rs[1].lat>>, <<rs[n].lng, rs[n].lat>>>>)]
        acc == accuracies(ds)
    IN  [i \in 1..n |->
            [id |-> rs[i].id, username |-> rs[i].username,
             latitude |-> rs[i].lat, longitude |-> rs[i].lng,
             timestamp |-> rs[i].timestamp,
             distance |-> ds[i], accuracy |-> acc[i],
             is_first |-> (i = 1), is_last |-> (i = n)]]

\* C10: the answer of a get_all_points call that read two or more rows is the
\* score of the table as it was at the call's one read, whatever add_location
\* committed before the call returned.
C10_ScoresItsSnapshot ==
    (last_call.made > 0 /\ Cardinality(last_call.seen) >= 2) =>
        last_call.body = ScoreOf(last_call.seen)

C10_Witness ==
    /\ last_call.made > 0
    /\ Cardinality(last_call.seen) >= 3
    /\ last_call.seen # locations
    /\ last_call.seen \subseteq locations
    /\ Len(last_call.body) = Cardinality(last_call.seen)

====
